---------------------------- MODULE Spec2Model ----------------------------
(***************************************************************************)
(* A model of Food.py, the UMich dining menu finder: the tag extractor and *)
(* classifier, the page fetcher, the meal-section parser, the index        *)
(* builder (one asyncio task per (hall, day) under a semaphore), the       *)
(* rebuild callback and the query callback.                                *)
(*                                                                         *)
(* Text.  A Python str is held tokenised: a text is a sequence of tokens,  *)
(* a token is a sequence of one-character strings, and a token is either   *)
(* a word (a maximal run of \w characters) or one single non-word          *)
(* character (a blank, "-", ".", ":", "/", ",").  Two word tokens are      *)
(* never adjacent, so every edge of a word token is a regex \b.  Case      *)
(* folding, string order (by code point) and substring search work on the  *)
(* characters; the word-level regexes work on the tokens.                  *)
(***************************************************************************)
EXTENDS Integers, Sequences, FiniteSets, TLC

VARIABLES
    today,         \* ordinal of datetime.today() (1 = 2026-11-01)
    served,        \* the responses the upstream site may give to a request
    tasks,         \* build_index_async: the (hall, date) of each task, in creation order
    status,        \* per task: "created" (waiting for sem), "fetching" (inside async with sem), "done"
    resp,          \* per task: the response its fetch met, <<>> before
    chunks,        \* per task: the list parse_menu_for_day_hall returned, <<>> before
    sem,           \* the value of asyncio.Semaphore(MAX_CONCURRENCY)
    pc,            \* "idle", "gather" (inside asyncio.gather), "built" (build_index returned)
    new_df,        \* the rows build_index returned to its caller
    menu_data,     \* dcc.Store "menu-data": <<>> before the app is laid out, else <<records>>
    item_options,  \* the item dropdown's options
    call,          \* the arguments of the function under study, <<>> or <<args>>
    ret            \* what that function returned, <<>> or <<value>>

vars == <<today, served, tasks, status, resp, chunks, sem, pc, new_df,
          menu_data, item_options, call, ret>>

---------------------------------------------------------------------------
(* Characters and strings *)

UPPER == <<"A","B","C","D","E","F","G","H","I","J","K","L","M",
           "N","O","P","Q","R","S","T","U","V","W","X","Y","Z">>
LOWER == <<"a","b","c","d","e","f","g","h","i","j","k","l","m",
           "n","o","p","q","r","s","t","u","v","w","x","y","z">>
DIGITS == <<"0","1","2","3","4","5","6","7","8","9">>

IndexIn(seq, c) == CHOOSE i \in 1..Len(seq) : seq[i] = c
Occurs(seq, c) == \E i \in 1..Len(seq) : seq[i] = c

\* ord(c): the code point, which Python's str comparison goes by, as a table
\* over the characters of the model's texts
CodePoint ==
    [c \in {UPPER[i] : i \in 1..Len(UPPER)} \cup {LOWER[i] : i \in 1..Len(LOWER)}
           \cup {DIGITS[i] : i \in 1..Len(DIGITS)}
           \cup {" ", ",", "-", ".", "/", ":", "|"} |->
        IF Occurs(UPPER, c) THEN 64 + IndexIn(UPPER, c)
        ELSE IF Occurs(LOWER, c) THEN 96 + IndexIn(LOWER, c)
        ELSE IF Occurs(DIGITS, c) THEN 47 + IndexIn(DIGITS, c)
        ELSE CASE c = " " -> 32 [] c = "," -> 44 [] c = "-" -> 45 [] c = "." -> 46
               [] c = "/" -> 47 [] c = ":" -> 58 [] c = "|" -> 124]
Ord(c) == CodePoint[c]

\* str.casefold and str.upper on one character, as tables
ToLower == [c \in {UPPER[i] : i \in 1..Len(UPPER)} |-> LOWER[IndexIn(UPPER, c)]]
ToUpper == [c \in {LOWER[i] : i \in 1..Len(LOWER)} |-> UPPER[IndexIn(LOWER, c)]]
IsWordChar(c) == c \in DOMAIN ToLower \/ c \in DOMAIN ToUpper \/ Occurs(DIGITS, c)

LowerChar(c) == IF c \in DOMAIN ToLower THEN ToLower[c] ELSE c
UpperChar(c) == IF c \in DOMAIN ToUpper THEN ToUpper[c] ELSE c

SP == <<" ">>
IsWord(tok) == Len(tok) > 0 /\ IsWordChar(tok[1])

RECURSIVE Flatten(_)
Flatten(text) ==
    IF Len(text) = 0 THEN <<>> ELSE Head(text) \o Flatten(Tail(text))

\* a < b for two str, character by character, a proper prefix first
StrLess(a, b) ==
    \E k \in 1..Len(b) :
        /\ k <= Len(a) + 1
        /\ \A j \in 1..(k - 1) : a[j] = b[j]
        /\ (k = Len(a) + 1 \/ Ord(a[k]) < Ord(b[k]))

TextLess(s, t) == StrLess(Flatten(s), Flatten(t))
TextEq(s, t) == Flatten(s) = Flatten(t)

\* the elements of s at the indexes Keep accepts, in order
RECURSIVE KeepFrom(_, _, _)
KeepFrom(s, i, keep) ==
    IF i > Len(s) THEN <<>>
    ELSE (IF i \in keep THEN <<s[i]>> ELSE <<>>) \o KeepFrom(s, i + 1, keep)

\* sorted(s, key): stable; before[i, j] says that s[i] sorts strictly before s[j].
\* pos[i] is the place of s[i] in the result (worked out once, as a tuple).
SortBy(s, before) ==
    LET n == Len(s)
        pos == [i \in 1..n |-> 1 + Cardinality({j \in 1..n :
                        before[j, i] \/ (~before[i, j] /\ j < i)})] \o <<>>
    IN  [p \in 1..n |-> s[CHOOSE i \in 1..n : pos[i] = p]] \o <<>>

\* the words of ws with one blank between them
Words(ws) ==
    [i \in 1..(2 * Len(ws) - 1) |-> IF i % 2 = 1 THEN ws[(i + 1) \div 2] ELSE SP]

str_casefold(text) ==
    [i \in 1..Len(text) |-> [j \in 1..Len(text[i]) |-> LowerChar(text[i][j])]]

\* str.title(): each word's first letter upper, its other letters lower
str_title(text) ==
    [i \in 1..Len(text) |->
        [j \in 1..Len(text[i]) |->
            IF j = 1 THEN UpperChar(text[i][j]) ELSE LowerChar(text[i][j])]]

\* _normalize_spaces: re.sub(r"\s+", " ", s).strip()
normalize_spaces(s) ==
    KeepFrom(s, 1, {i \in 1..Len(s) :
        \/ s[i] # SP
        \/ /\ i > 1
           /\ s[i - 1] # SP
           /\ \E j \in (i + 1)..Len(s) : s[j] # SP})

item_key(name) == str_casefold(normalize_spaces(name))

\* str.strip(chars): the leading and trailing characters of chars removed
str_strip(s, chars) ==
    LET inner == {i \in 1..Len(s) : s[i] \notin chars}
    IN  IF inner = {} THEN <<>>
        ELSE SubSeq(s, CHOOSE i \in inner : \A j \in inner : i <= j,
                       CHOOSE i \in inner : \A j \in inner : i >= j)

\* whether pat occurs in s at index i
OccursAt(s, i, pat) ==
    /\ i + Len(pat) - 1 <= Len(s)
    /\ \A k \in 1..Len(pat) : s[i + k - 1] = pat[k]

\* str.replace(pat, rep): every occurrence, left to right, none overlapping
RECURSIVE str_replace(_, _, _)
str_replace(s, pat, rep) ==
    IF Len(s) = 0 THEN <<>>
    ELSE IF OccursAt(s, 1, pat)
         THEN rep \o str_replace(SubSeq(s, Len(pat) + 1, Len(s)), pat, rep)
         ELSE <<Head(s)>> \o str_replace(Tail(s), pat, rep)

StartsWith(s, pat) == OccursAt(s, 1, pat)

---------------------------------------------------------------------------
(* Tag extractor and classifier *)

\* the words of the program's regexes (all of them re.I, so held case-folded)
w_gluten == <<"g","l","u","t","e","n">>
w_free == <<"f","r","e","e">>
w_halal == <<"h","a","l","a","l">>
w_spicy == <<"s","p","i","c","y">>
w_vegan == <<"v","e","g","a","n">>
w_vegetarian == <<"v","e","g","e","t","a","r","i","a","n">>
w_kosher == <<"k","o","s","h","e","r">>
w_nutrient == <<"n","u","t","r","i","e","n","t">>
w_dense == <<"d","e","n","s","e">>
w_low == <<"l","o","w">>
w_medium == <<"m","e","d","i","u","m">>
w_high == <<"h","i","g","h">>
w_carbon == <<"c","a","r","b","o","n">>
w_footprint == <<"f","o","o","t","p","r","i","n","t">>
w_co2 == <<"c","o","2">>
w_close == <<"c","l","o","s","e">>
w_contains == <<"c","o","n","t","a","i","n","s">>
w_nutrition == <<"n","u","t","r","i","t","i","o","n">>
w_facts == <<"f","a","c","t","s">>
w_serving == <<"s","e","r","v","i","n","g">>
w_size == <<"s","i","z","e">>
w_no == <<"n","o">>
w_service == <<"s","e","r","v","i","c","e">>
w_menu == <<"m","e","n","u">>
w_closed == <<"c","l","o","s","e","d">>

str_upper(text) ==
    [i \in 1..Len(text) |-> [j \in 1..Len(text[i]) |-> UpperChar(text[i][j])]]

\* ATTR_REGEXES, in the dict's insertion order.  label: the key, e.g.
\* "NUTRIENT DENSE LOW"; alts: the regex's alternatives, each the words it
\* asks for, with \b at both ends and \s* between two words.  (co[2\u2082]
\* is held as the word co2.)
ATTR_REGEXES == <<
    [label |-> str_upper(Words(<<w_gluten, w_free>>)),
     alts |-> <<<<w_gluten, w_free>>>>],
    [label |-> str_upper(Words(<<w_halal>>)),
     alts |-> <<<<w_halal>>>>],
    [label |-> str_upper(Words(<<w_spicy>>)),
     alts |-> <<<<w_spicy>>>>],
    [label |-> str_upper(Words(<<w_vegan>>)),
     alts |-> <<<<w_vegan>>>>],
    [label |-> str_upper(Words(<<w_vegetarian>>)),
     alts |-> <<<<w_vegetarian>>>>],
    [label |-> str_upper(Words(<<w_kosher>>)),
     alts |-> <<<<w_kosher>>>>],
    [label |-> str_upper(Words(<<w_nutrient, w_dense, w_low, w_medium>>)),
     alts |-> <<<<w_nutrient, w_dense, w_low, w_medium>>>>],
    [label |-> str_upper(Words(<<w_nutrient, w_dense, w_medium, w_high>>)),
     alts |-> <<<<w_nutrient, w_dense, w_medium, w_high>>>>],
    [label |-> str_upper(Words(<<w_nutrient, w_dense, w_low>>)),
     alts |-> <<<<w_nutrient, w_dense, w_low>>>>],
    [label |-> str_upper(Words(<<w_nutrient, w_dense, w_medium>>)),
     alts |-> <<<<w_nutrient, w_dense, w_medium>>>>],
    [label |-> str_upper(Words(<<w_nutrient, w_dense, w_high>>)),
     alts |-> <<<<w_nutrient, w_dense, w_high>>>>],
    [label |-> str_upper(Words(<<w_carbon, w_footprint, w_low>>)),
     alts |-> <<<<w_carbon, w_footprint, w_low>>, <<w_co2, w_low>>>>],
    [label |-> str_upper(Words(<<w_carbon, w_footprint, w_medium>>)),
     alts |-> <<<<w_carbon, w_footprint, w_medium>>, <<w_co2, w_medium>>>>],
    [label |-> str_upper(Words(<<w_carbon, w_footprint, w_high>>)),
     alts |-> <<<<w_carbon, w_footprint, w_high>>, <<w_co2, w_high>>>>] >>

FoldTok(tok) == [j \in 1..Len(tok) |-> LowerChar(tok[j])]

\* the first index from i on that holds no blank (Len(s) + 1 if none): \s*
RECURSIVE SkipBlanks(_, _)
SkipBlanks(s, i) ==
    IF i <= Len(s) /\ s[i] = SP THEN SkipBlanks(s, i + 1) ELSE i

\* the index where a match of the words pat[k..] that starts at s[i] ends, 0 if none
RECURSIVE MatchWords(_, _, _, _)
MatchWords(s, i, pat, k) ==
    IF i > Len(s) \/ FoldTok(s[i]) # pat[k] THEN 0
    ELSE IF k = Len(pat) THEN i
    ELSE MatchWords(s, SkipBlanks(s, i + 1), pat, k + 1)

\* the same for a regex a|b|...: the first alternative that matches at s[i]
MatchAlts(s, i, alts) ==
    LET hits == {a \in 1..Len(alts) : MatchWords(s, i, alts[a], 1) > 0}
    IN  IF hits = {} THEN 0
        ELSE MatchWords(s, i, alts[CHOOSE a \in hits : \A b \in hits : a <= b], 1)

\* rx.search(line)
rx_search(alts, line) == \E i \in 1..Len(line) : MatchAlts(line, i, alts) > 0

\* rx.sub("", line): every match removed, left to right, none overlapping
RECURSIVE rx_sub(_, _, _)
rx_sub(alts, line, i) ==
    IF i > Len(line) THEN <<>>
    ELSE LET e == MatchAlts(line, i, alts)
         IN  IF e > 0 THEN rx_sub(alts, line, e + 1)
             ELSE <<line[i]>> \o rx_sub(alts, line, i + 1)

\* \b(close|Contains:|Nutrition Facts|Serving Size)\b matches at s[i]; the \b
\* after "Contains:" asks for a word character right after the colon
MarkerAt(s, i) ==
    \/ FoldTok(s[i]) = w_close
    \/ /\ FoldTok(s[i]) = w_contains
       /\ i + 2 <= Len(s)
       /\ s[i + 1] = <<":">>
       /\ IsWord(s[i + 2])
    \/ /\ i + 2 <= Len(s)
       /\ s[i + 1] = SP
       /\ \/ FoldTok(s[i]) = w_nutrition /\ FoldTok(s[i + 2]) = w_facts
          \/ FoldTok(s[i]) = w_serving /\ FoldTok(s[i + 2]) = w_size

\* re.split(marker, raw_line, 1)[0]: the text before the first marker
BeforeMarker(raw_line) ==
    LET at == {i \in 1..Len(raw_line) : MarkerAt(raw_line, i)}
    IN  IF at = {} THEN raw_line
        ELSE SubSeq(raw_line, 1, (CHOOSE i \in at : \A j \in at : i <= j) - 1)

\* (faulty variant) sorted without reverse=True: the shorter labels first
ShorterFirst(a, b) == Len(Flatten(a.label)) < Len(Flatten(b.label))

\* sorted(ATTR_REGEXES.keys(), key=len, reverse=True): longer labels first,
\* equal lengths in the dict's order
LongerFirst(a, b) == Len(Flatten(a.label)) > Len(Flatten(b.label))
LabelOrder ==
    SortBy(ATTR_REGEXES, [i \in 1..Len(ATTR_REGEXES), j \in 1..Len(ATTR_REGEXES) |->
                             LongerFirst(ATTR_REGEXES[i], ATTR_REGEXES[j])])

\* the loop of split_item_and_tags over the labels from the k-th on
RECURSIVE TagLoop(_, _, _, _)
TagLoop(labels, k, line, found) ==
    IF k > Len(labels) THEN [line |-> line, found |-> found]
    ELSE IF rx_search(labels[k].alts, line)
         THEN TagLoop(labels, k + 1, rx_sub(labels[k].alts, line, 1),
                      Append(found, labels[k].label))
         ELSE TagLoop(labels, k + 1, line, found)

\* the characters of .strip(chars) that the model's texts hold
StripChars == {<<"-">>, <<":">>, <<"|">>, SP}

\* split_item_and_tags(raw_line) -> [name, tags]
split_item_and_tags(raw_line) ==
    LET line == normalize_spaces(BeforeMarker(raw_line))
        out == TagLoop(LabelOrder, 1, line, <<>>)
    IN  [name |-> str_strip(normalize_spaces(out.line), StripChars),
         tags |-> SortBy(out.found, [i \in 1..Len(out.found), j \in 1..Len(out.found) |->
                                       TextLess(out.found[i], out.found[j])])]

ND_PREFIX == str_upper(Words(<<w_nutrient, w_dense>>))
CF_PREFIX == str_upper(Words(<<w_carbon, w_footprint>>))
SLASH == <<"/">>

\* v for a NUTRIENT DENSE tag: the prefix taken off, then the two replaces, then title()
NutrientLevel(t) ==
    LET v0 == str_strip(str_replace(t, ND_PREFIX, <<>>), {SP})
        v1 == str_replace(v0, str_upper(Words(<<w_low, w_medium>>)),
                          <<str_title(<<w_low>>)[1], SLASH, str_title(<<w_medium>>)[1]>>)
        v2 == str_replace(v1, str_upper(Words(<<w_medium, w_high>>)),
                          <<str_title(<<w_medium>>)[1], SLASH, str_title(<<w_high>>)[1]>>)
    IN  str_title(v2)

CarbonLevel(t) == str_title(str_strip(str_replace(t, CF_PREFIX, <<>>), {SP}))

\* PRETTY_ATTR_LABEL.get(t, t.title()): for each label that reaches this
\* line the table's entry is the label in title case
PRETTY_ATTR_LABEL(t) == str_title(t)

\* ", ".join(parts)
RECURSIVE JoinComma(_)
JoinComma(parts) ==
    IF Len(parts) = 0 THEN <<>>
    ELSE IF Len(parts) = 1 THEN parts[1]
    ELSE parts[1] \o <<<<",">>, SP>> \o JoinComma(Tail(parts))

\* group_tag_values(tags): the loop assigns nd and cf anew at each tag of
\* the family, so the last one in the list stays
group_tag_values(tags) ==
    LET nds == {i \in 1..Len(tags) : StartsWith(tags[i], ND_PREFIX)}
        cfs == {i \in 1..Len(tags) :
                    ~StartsWith(tags[i], ND_PREFIX) /\ StartsWith(tags[i], CF_PREFIX)}
        last(S) == CHOOSE i \in S : \A j \in S : i >= j
        rest == KeepFrom(tags, 1, (1..Len(tags)) \ (nds \cup cfs))
        others == [i \in 1..Len(rest) |-> PRETTY_ATTR_LABEL(rest[i])]
    IN  [nd |-> IF nds = {} THEN <<>> ELSE NutrientLevel(tags[last(nds)]),
         cf |-> IF cfs = {} THEN <<>> ELSE CarbonLevel(tags[last(cfs)]),
         others |-> others,
         others_str |-> JoinComma(others)]

---------------------------------------------------------------------------
(* Configuration, dates *)

T_Breakfast == <<"B","r","e","a","k","f","a","s","t">>
T_Lunch == <<"L","u","n","c","h">>
T_Dinner == <<"D","i","n","n","e","r">>
T_Brunch == <<"B","r","u","n","c","h">>

WEEKDAY_MEALS == << <<T_Breakfast>>, <<T_Lunch>>, <<T_Dinner>> >>
WEEKEND_MEALS == << <<T_Brunch>>, <<T_Dinner>> >>

\* DINING_HALLS: the names, in the dict's order; the model keeps the first
\* two of the seven halls ("Bursley", "East Quad")
DINING_HALLS == << << <<"B","u","r","s","l","e","y">> >>,
                   Words(<< <<"E","a","s","t">>, <<"Q","u","a","d">> >>) >>

MAX_CONCURRENCY == 8

\* A date is the ordinal of a day of November or December 2026 (1 is
\* 2026-11-01, a Sunday; 31 is 2026-12-01).
date_month(d) == IF d <= 30 THEN 11 ELSE 12
date_day(d) == IF d <= 30 THEN d ELSE d - 30
\* date.weekday(): Monday is 0
date_weekday(d) == (d + 5) % 7

TwoDigits(n) == <<DIGITS[(n \div 10) + 1], DIGITS[(n % 10) + 1]>>

\* date.strftime("%Y-%m-%d")
date_strftime(d) ==
    << <<"2","0","2","6">>, <<"-">>, TwoDigits(date_month(d)), <<"-">>,
       TwoDigits(date_day(d)) >>

---------------------------------------------------------------------------
(* Page fetcher *)

\* What a request can meet: "ok" (a content response), "bad_status" (a 4xx
\* or 5xx response, whose body is the site's error document), "conn_error"
\* (session.get raises aiohttp.ClientError), "timeout" (the 20 s
\* ClientTimeout raises asyncio.TimeoutError).  A document is a sequence of
\* nodes; the empty str is the empty sequence.
Outcomes == {"ok", "bad_status", "conn_error", "timeout"}

\* fetch_text: resp.text() of whatever response arrives (the status is not
\* looked at), "" when session.get or resp.text() raises
fetch_text(response) ==
    IF response.outcome \in {"conn_error", "timeout"} THEN <<>>
    ELSE response.body

---------------------------------------------------------------------------
(* Meal-section parser *)

\* A node of a document:  [tag |-> "h3", a |-> the text of its <a> (<<>> if
\* it has none), li |-> <<>>]  or  [tag |-> "ul", a |-> <<>>, li |-> the
\* texts of its first-level <li> rows].

\* meal_header.get(key): the dict keeps the last <h3> of each key; 0 if none
meal_header(html, key) ==
    LET hs == {i \in 1..Len(html) :
                  /\ html[i].tag = "h3"
                  /\ html[i].a # <<>>
                  /\ TextEq(str_casefold(normalize_spaces(html[i].a)), key)}
    IN  IF hs = {} THEN 0 ELSE CHOOSE i \in hs : \A j \in hs : i >= j

\* header.find_next("ul"): the first <ul> after the header; 0 if none
find_next_ul(html, h) ==
    LET us == {i \in (h + 1)..Len(html) : html[i].tag = "ul"}
    IN  IF us = {} THEN 0 ELSE CHOOSE i \in us : \A j \in us : i <= j

\* re.search(r"\b(No Service|No Menu|Closed)\b", line, re.I)
ClosedMarker(line) ==
    \E i \in 1..Len(line) :
        \/ FoldTok(line[i]) = w_closed
        \/ /\ FoldTok(line[i]) = w_no
           /\ i + 2 <= Len(line)
           /\ line[i + 1] = SP
           /\ FoldTok(line[i + 2]) \in {w_service, w_menu}

\* the row of one <li>, <<>> when the loop skips it
li_rows(li_text, meal, hall_name, date_str) ==
    LET line == normalize_spaces(li_text)
        nt == split_item_and_tags(line)
        g == group_tag_values(nt.tags)
    IN  IF line = <<>> \/ ClosedMarker(line) THEN <<>>
        ELSE IF nt.name = <<>> THEN <<>>
        ELSE << [item |-> nt.name,
                 item_key |-> item_key(nt.name),
                 item_display |-> nt.name,
                 meal |-> meal,
                 hall |-> hall_name,
                 date |-> date_str,
                 tags |-> nt.tags,
                 nutrient_density |-> g.nd,
                 carbon_footprint |-> g.cf,
                 other_tags |-> g.others,
                 other_tags_str |-> g.others_str] >>

RECURSIVE ul_rows(_, _, _, _, _)
ul_rows(lis, k, meal, hall_name, date_str) ==
    IF k > Len(lis) THEN <<>>
    ELSE li_rows(lis[k], meal, hall_name, date_str)
             \o ul_rows(lis, k + 1, meal, hall_name, date_str)

\* the rows of one meal: its header, the next <ul>, its rows
meal_rows(html, meal, hall_name, date_str) ==
    LET h == meal_header(html, str_casefold(meal))
        u == IF h = 0 THEN 0 ELSE find_next_ul(html, h)
    IN  IF u = 0 THEN <<>>
        ELSE ul_rows(html[u].li, 1, meal, hall_name, date_str)

RECURSIVE all_meal_rows(_, _, _, _, _)
all_meal_rows(html, meals, k, hall_name, date_str) ==
    IF k > Len(meals) THEN <<>>
    ELSE meal_rows(html, meals[k], hall_name, date_str)
             \o all_meal_rows(html, meals, k + 1, hall_name, date_str)

\* (faulty variant) a key that leaves the meal out
DedupKeyWithoutMeal(r) == <<r.date, r.hall, r.item_key>>

DedupKey(r) == <<r.date, r.hall, r.meal, r.item_key>>

\* the dedup loop: a row stays if no earlier row has its key
dedup(results) ==
    KeepFrom(results, 1, {i \in 1..Len(results) :
        \A j \in 1..(i - 1) : DedupKey(results[j]) # DedupKey(results[i])})

\* parse_menu_for_day_hall, from the fetched html on
parse_menu_for_day_hall(hall_name, date, html) ==
    LET date_str == date_strftime(date)
        meals == IF date_weekday(date) < 5 THEN WEEKDAY_MEALS ELSE WEEKEND_MEALS
    IN  IF html = <<>> THEN <<>>
        ELSE dedup(all_meal_rows(html, meals, 1, hall_name, date_str))

---------------------------------------------------------------------------
(* Index builder *)

\* (faulty variant) the two loops swapped: for each hall, cur from start to end
TaskListHallMajor(start, end) ==
    LET nd == end - start + 1
    IN  [i \in 1..(nd * Len(DINING_HALLS)) |->
            [date |-> start + ((i - 1) % nd),
             hall |-> DINING_HALLS[((i - 1) \div nd) + 1]]]

\* the (hall, date) of the tasks build_index_async creates, in creation
\* order: cur from start to end, and for each cur the halls in dict order
TaskList(start, end) ==
    LET nh == Len(DINING_HALLS)
    IN  [i \in 1..((end - start + 1) * nh) |->
            [date |-> start + ((i - 1) \div nh),
             hall |-> DINING_HALLS[((i - 1) % nh) + 1]]]

\* (faulty variant) a semaphore that lets one task too many in
sem_can_acquire_off_by_one(value) == value >= 0

\* asyncio.Semaphore.acquire returns without waiting while the value is positive
sem_can_acquire(value) == value > 0

\* (faulty variant) a gather that returns as soon as one task has returned
gather_first_done(st) == \E t \in 1..Len(st) : st[t] = "done"

\* asyncio.gather(*tasks) returns once every task has returned
gather_done(st) == \A t \in 1..Len(st) : st[t] = "done"

\* chunks, as gather returns them: in the order of the tasks given to it
RECURSIVE concat_chunks(_, _)
concat_chunks(cs, k) ==
    IF k > Len(cs) THEN <<>> ELSE cs[k] \o concat_chunks(cs, k + 1)

\* (faulty variant) a plain assignment instead of setdefault: the last row's item stays
last_display(rows, key) ==
    rows[CHOOSE i \in 1..Len(rows) :
            /\ rows[i].item_key = key
            /\ \A j \in (i + 1)..Len(rows) : rows[j].item_key # key].item

\* first_display: setdefault keeps the item of the first row of each key
first_display(rows, key) ==
    rows[CHOOSE i \in 1..Len(rows) :
            /\ rows[i].item_key = key
            /\ \A j \in 1..(i - 1) : rows[j].item_key # key].item

\* df["item_display"] = df["item_key"].map(first_display)
with_canonical_display(rows) ==
    [i \in 1..Len(rows) |->
        [rows[i] EXCEPT !.item_display = first_display(rows, rows[i].item_key)]]

\* what build_index_async returns for the chunks gather gave it
merge_rows(cs) == with_canonical_display(concat_chunks(cs, 1))

\* unique_items -> options: drop_duplicates("item_key") keeps the first row
\* of each key, sort_values(key=casefold) orders them by the folded label
OptionLess(a, b) == TextLess(str_casefold(a.label), str_casefold(b.label))
item_dropdown_options(records) ==
    LET firsts == KeepFrom(records, 1, {i \in 1..Len(records) :
                      \A j \in 1..(i - 1) : records[j].item_key # records[i].item_key})
        opts == [i \in 1..Len(firsts) |->
                   [label |-> firsts[i].item_display, value |-> firsts[i].item_key]]
    IN  SortBy(opts, [i \in 1..Len(opts), j \in 1..Len(opts) |-> OptionLess(opts[i], opts[j])])

---------------------------------------------------------------------------
(* The upstream site: the documents and responses the model draws from *)

T_Tofu == <<"T","o","f","u">>
T_TOFU == <<"T","O","F","U">>
T_rice == <<"r","i","c","e">>
T_Vegan == <<"V","e","g","a","n">>
T_Closed == <<"C","l","o","s","e","d">>
T_Not == <<"N","o","t">>
T_Found == <<"F","o","u","n","d">>
DASH == <<"-">>
DOT == <<".">>
\* "B.L.T" and "B-L-T": one sandwich, spelled two ways
T_BLT_dots == << <<"B">>, DOT, <<"L">>, DOT, <<"T">> >>
T_BLT_dashes == << <<"B">>, DASH, <<"L">>, DASH, <<"T">> >>

H3(text) == [tag |-> "h3", a |-> text, li |-> <<>>]
UL(lis) == [tag |-> "ul", a |-> <<>>, li |-> lis]

\* a weekday menu: Breakfast, Lunch and Dinner sections
PageA ==
    << H3(<<T_Breakfast>>), UL(<< <<T_Tofu, SP, T_Vegan>> >>),
       H3(<<T_Lunch>>),     UL(<< <<T_rice>>, T_BLT_dots >>),
       H3(<<T_Dinner>>),    UL(<< <<T_rice>>, <<T_Tofu>> >>) >>

\* a weekend menu, the item in capitals, one item listed twice, one closed row
PageB ==
    << H3(str_upper(<<T_Brunch>>)),
       UL(<< <<T_TOFU>>, <<T_Tofu, SP, DASH, SP, T_Vegan>>, <<T_Closed>> >>),
       H3(<<T_Dinner>>),
       UL(<< <<T_TOFU, SP>> \o str_title(Words(<<w_nutrient, w_dense, w_medium, w_high>>)),
             T_BLT_dashes >>) >>

\* the site's error document: a heading without a link
ErrorPage == << H3(<<>>), UL(<< <<T_Not, SP, T_Found>> >>) >>

AllResponses ==
    { [outcome |-> "ok", body |-> PageA],
      [outcome |-> "ok", body |-> PageB],
      [outcome |-> "bad_status", body |-> ErrorPage],
      [outcome |-> "conn_error", body |-> <<>>],
      [outcome |-> "timeout", body |-> <<>>] }

\* what a task returns for each response: fetch_text, then the parser, worked
\* out once for every hall, date and response of the model
TaskResult ==
    [h \in {DINING_HALLS[i] : i \in 1..Len(DINING_HALLS)}, d \in 1..61, r \in AllResponses |->
        parse_menu_for_day_hall(h, d, fetch_text(r))]

---------------------------------------------------------------------------
(* build_index_async as a state machine *)

\* the build window: the program's end is start + 14 days; the model's is
\* start + WindowDays
WindowDays == 1
SemWindowDays == 4

NoTasks == <<>>

\* tasks.append(task_wrapper()) for every (day, hall), then gather starts them
StartBuild(start, end) ==
    /\ tasks' = TaskList(start, end)
    /\ status' = [t \in 1..Len(TaskList(start, end)) |-> "created"]
    /\ resp' = [t \in 1..Len(TaskList(start, end)) |-> <<>>]
    /\ chunks' = [t \in 1..Len(TaskList(start, end)) |-> <<>>]
    /\ sem' = MAX_CONCURRENCY
    /\ new_df' = <<>>
    /\ pc' = "gather"

\* the locals of a build that has returned (or was given up) are gone
DropBuild ==
    /\ tasks' = NoTasks
    /\ status' = <<>>
    /\ resp' = <<>>
    /\ chunks' = <<>>
    /\ sem' = MAX_CONCURRENCY
    /\ new_df' = <<>>
    /\ pc' = "idle"

\* task_wrapper enters "async with sem"
Acquire(t) ==
    /\ pc = "gather"
    /\ status[t] = "created"
    /\ sem_can_acquire(sem)
    /\ sem' = sem - 1
    /\ status' = [status EXCEPT ![t] = "fetching"]
    /\ UNCHANGED <<today, served, tasks, resp, chunks, pc, new_df,
                   menu_data, item_options, call, ret>>

\* the task's fetch meets a response; parse_menu_for_day_hall returns its
\* rows; "async with sem" is left
FetchAndParse(t) ==
    /\ pc = "gather"
    /\ status[t] = "fetching"
    /\ \E r \in served :
        /\ resp' = [resp EXCEPT ![t] = <<r>>]
        /\ chunks' = [chunks EXCEPT ![t] = TaskResult[tasks[t].hall, tasks[t].date, r]]
    /\ status' = [status EXCEPT ![t] = "done"]
    /\ sem' = sem + 1
    /\ UNCHANGED <<today, served, tasks, pc, new_df, menu_data, item_options,
                   call, ret>>

\* gather returns the chunks; the rows are merged; build_index returns the frame
GatherReturn ==
    /\ pc = "gather"
    /\ gather_done(status)
    /\ new_df' = merge_rows(chunks)
    /\ pc' = "built"
    /\ UNCHANGED <<today, served, tasks, status, resp, chunks, sem,
                   menu_data, item_options, call, ret>>

InitBuild(todays, days, srv) ==
    /\ today \in todays
    /\ served = srv
    /\ tasks = TaskList(today, today + days)
    /\ status = [t \in 1..Len(tasks) |-> "created"]
    /\ resp = [t \in 1..Len(tasks) |-> <<>>]
    /\ chunks = [t \in 1..Len(tasks) |-> <<>>]
    /\ sem = MAX_CONCURRENCY
    /\ pc = "gather"
    /\ new_df = <<>>
    /\ menu_data = <<>>
    /\ item_options = <<>>
    /\ call = <<>>
    /\ ret = <<>>

\* Sunday 2026-11-29 (a weekend day, then a weekday) and Monday 2026-11-30
\* (then the first of December)
StartDays == {29, 30}

BuildNext ==
    \/ \E t \in 1..Len(tasks) : Acquire(t)
    \/ \E t \in 1..Len(tasks) : FetchAndParse(t)
    \/ GatherReturn

\* One run of build_index_async.  The event loop runs every task that can
\* run, and every fetch ends (a response, an error, or the 20 s timeout).
BuildSpec ==
    /\ InitBuild(StartDays, WindowDays, AllResponses)
    /\ [][BuildNext]_vars
    /\ WF_vars(BuildNext)

\* One run with more tasks than MAX_CONCURRENCY, the site unreachable
SemSpec ==
    /\ InitBuild({29}, SemWindowDays, {[outcome |-> "timeout", body |-> <<>>]})
    /\ [][BuildNext]_vars

---------------------------------------------------------------------------
(* The query callback *)

\* Series.str.contains(pat): pat is searched as a regular expression; of
\* the metacharacters the model's keys hold only ".", any one character
str_contains(s, pat) ==
    \E off \in 0..(Len(s) - Len(pat)) :
        \A i \in 1..Len(pat) : pat[i] = "." \/ pat[i] = s[off + i]

\* the order of sort_values(["date", "hall", "meal", "item_display"]):
\* column after column, each by the code points of its strings
SortValuesLess(a, b) ==
    \/ TextLess(a.date, b.date)
    \/ /\ a.date = b.date
       /\ \/ TextLess(a.hall, b.hall)
          \/ /\ a.hall = b.hall
             /\ \/ TextLess(a.meal, b.meal)
                \/ a.meal = b.meal /\ TextLess(a.item_display, b.item_display)

\* f[cols].to_dict("records")
result_columns(r) ==
    [date |-> r.date, meal |-> r.meal, hall |-> r.hall,
     item_display |-> r.item_display, nutrient_density |-> r.nutrient_density,
     carbon_footprint |-> r.carbon_footprint, other_tags_str |-> r.other_tags_str]

\* update_results, its first output (the rows of the table).
\* selected_item_key is <<>> (nothing selected) or <<key>>;
\* hall_filter and attr_filter are sets, empty when nothing is ticked.
\* raised: pd.DataFrame([]) has no columns, so the first column the code
\* asks of it is a KeyError and the callback gives no output.
update_results(selected_item_key, hall_filter, attr_filter, records) ==
    LET n == Len(records)
        exact == IF selected_item_key = <<>> THEN {}
                 ELSE {i \in 1..n : records[i].item_key = selected_item_key[1]}
        fallback == IF selected_item_key = <<>> THEN {}
                    ELSE {i \in 1..n :
                            str_contains(Flatten(str_casefold(records[i].item)),
                                         Flatten(selected_item_key[1]))}
        base == IF selected_item_key = <<>> THEN 1..n
                ELSE IF exact # {} THEN exact ELSE fallback
        in_halls == IF hall_filter = {} THEN base
                    ELSE {i \in base : records[i].hall \in hall_filter}
        with_attrs == IF attr_filter = {} THEN in_halls
                      ELSE {i \in in_halls :
                              attr_filter \subseteq
                                  {records[i].tags[k] : k \in 1..Len(records[i].tags)}}
        f == KeepFrom(records, 1, with_attrs)
        sorted == SortBy(f, [i \in 1..Len(f), j \in 1..Len(f) |-> SortValuesLess(f[i], f[j])])
    IN  IF n = 0 /\ (selected_item_key # <<>> \/ hall_filter # {} \/ attr_filter # {})
        THEN [raised |-> TRUE, data |-> <<>>]
        ELSE [raised |-> FALSE,
              data |-> [i \in 1..Len(sorted) |-> result_columns(sorted[i])]]

---------------------------------------------------------------------------
(* The application: the startup build, the layout, rebuilds, queries *)

\* the window of a build of the application: start .. start + AppWindowDays
AppWindowDays == 0

\* the pages the site serves in the runs of the whole application
AppResponses ==
    { [outcome |-> "ok", body |-> PageA],
      [outcome |-> "timeout", body |-> <<>>] }

\* lines 235-270: the startup build has returned; the layout is made with
\* the store holding MENU_DF and the dropdown its items
AppLayout ==
    /\ pc = "built"
    /\ menu_data = <<>>
    /\ menu_data' = <<new_df>>
    /\ item_options' = <<item_dropdown_options(new_df)>>
    /\ DropBuild
    /\ UNCHANGED <<today, served, call, ret>>

\* a click on "Rebuild index": rebuild_index calls build_index for the
\* window that starts today (the same day or a later one)
RebuildClick ==
    /\ pc = "idle"
    /\ \E d \in StartDays :
        /\ d >= today
        /\ today' = d
        /\ StartBuild(d, d + AppWindowDays)
    /\ UNCHANGED <<served, menu_data, item_options, call, ret>>

\* build_index has returned: rebuild_index returns the records and the
\* options, and Dash sets both outputs from the one response
RebuildReturn ==
    /\ pc = "built"
    /\ menu_data # <<>>
    /\ menu_data' = <<new_df>>
    /\ item_options' = <<item_dropdown_options(new_df)>>
    /\ DropBuild
    /\ UNCHANGED <<today, served, call, ret>>

\* (faulty variant) a rebuild given up publishes the rows gathered so far
RebuildAbortPublishing ==
    /\ pc = "gather"
    /\ menu_data # <<>>
    /\ menu_data' = <<merge_rows(chunks)>>
    /\ item_options' = <<item_dropdown_options(merge_rows(chunks))>>
    /\ DropBuild
    /\ UNCHANGED <<today, served, call, ret>>

\* the callback ends without returning (an error that is no Exception
\* leaves build_index, the worker is stopped): no output is set
RebuildAbort ==
    /\ pc = "gather"
    /\ menu_data # <<>>
    /\ DropBuild
    /\ UNCHANGED <<today, served, menu_data, item_options, call, ret>>

\* every index a build of the application can return: one per start day and
\* per response of each task
AppSnapshots ==
    UNION { { merge_rows([t \in 1..Len(TaskList(d, d + AppWindowDays)) |->
                  TaskResult[TaskList(d, d + AppWindowDays)[t].hall,
                             TaskList(d, d + AppWindowDays)[t].date, met[t]]])
              : met \in [1..Len(TaskList(d, d + AppWindowDays)) -> AppResponses] }
            : d \in StartDays }

\* update_results for "every item" (nothing selected, no box ticked), worked
\* out once for each index
AllItems ==
    [records \in AppSnapshots |-> update_results(<<>>, {}, {}, records)]

\* the page asks for every item; the callback reads the store as it is now,
\* and when it raises the table keeps what it showed
Query ==
    /\ menu_data # <<>>
    /\ call' = << [selected_item_key |-> <<>>, hall_filter |-> {}, attr_filter |-> {}] >>
    /\ ret' = IF AllItems[menu_data[1]].raised THEN ret
              ELSE <<AllItems[menu_data[1]].data>>
    /\ UNCHANGED <<today, served, tasks, status, resp, chunks, sem, pc, new_df,
                   menu_data, item_options>>

Init == InitBuild(StartDays, AppWindowDays, AppResponses)

Next ==
    \/ \E t \in 1..Len(tasks) : Acquire(t)
    \/ \E t \in 1..Len(tasks) : FetchAndParse(t)
    \/ GatherReturn
    \/ AppLayout
    \/ RebuildClick
    \/ RebuildReturn
    \/ RebuildAbort
    \/ Query

Spec == Init /\ [][Next]_vars

---------------------------------------------------------------------------
(* The parser, the tag extractor and the query callback, each run on its own *)

\* the state of the application's variables while no build runs
NoBuild ==
    /\ today \in StartDays
    /\ served = {}
    /\ tasks = NoTasks
    /\ status = <<>>
    /\ resp = <<>>
    /\ chunks = <<>>
    /\ sem = MAX_CONCURRENCY
    /\ pc = "idle"
    /\ new_df = <<>>

\* a page holds up to MaxSections sections
MaxSections == 2

\* the <ul> lists of the pages: an item in three spellings and a second
\* item, and an item listed twice around a closed row
MenuLists ==
    { << <<T_Tofu>>, <<T_rice>>, <<T_TOFU>>, <<T_Tofu, SP, DASH, SP, T_Vegan>> >>,
      << <<T_rice>>, <<T_Closed>>, <<T_rice>> >> }

MealHeadings == { <<T_Lunch>>, str_upper(<<T_Dinner>>), <<T_Brunch>> }

\* a heading alone, or a heading and the list under it
Sections ==
    { <<H3(h)>> : h \in MealHeadings }
        \cup { <<H3(h), UL(l)>> : h \in MealHeadings, l \in MenuLists }

RECURSIVE PagesOf(_)
PagesOf(n) ==
    IF n = 0 THEN { <<>> }
    ELSE { p \o s : p \in PagesOf(n - 1), s \in Sections }

Pages == UNION { PagesOf(n) : n \in 0..MaxSections }

ParseInit ==
    /\ NoBuild
    /\ menu_data = <<>>
    /\ item_options = <<>>
    /\ call \in { << [hall_name |-> DINING_HALLS[1], date |-> today, html |-> p] >> :
                    p \in Pages }
    /\ ret = <<>>

\* parse_menu_for_day_hall runs on the page fetch_text gave it
Parse ==
    /\ ret = <<>>
    /\ ret' = << parse_menu_for_day_hall(call[1].hall_name, call[1].date, call[1].html) >>
    /\ UNCHANGED <<today, served, tasks, status, resp, chunks, sem, pc, new_df,
                   menu_data, item_options, call>>

ParseSpec == ParseInit /\ [][Parse]_vars

\* a line holds up to MaxLineParts pieces
MaxLineParts == 5

\* the pieces the <li> lines of the model are put together from
T_Soup == <<"S","o","u","p">>
LineParts ==
    { <<T_Soup>>,
      str_title(Words(<<w_nutrient, w_dense>>)),
      str_title(<<w_medium>>),
      str_title(<<w_high>>),
      str_title(<<w_low>>),
      <<w_close>> }

\* the lines of n pieces, one blank between two pieces
RECURSIVE LinesOf(_)
LinesOf(n) ==
    IF n = 1 THEN LineParts
    ELSE { l \o <<SP>> \o p : l \in LinesOf(n - 1), p \in LineParts }

Lines == UNION { LinesOf(n) : n \in 1..MaxLineParts }

ExtractInit ==
    /\ NoBuild
    /\ today = 30
    /\ menu_data = <<>>
    /\ item_options = <<>>
    /\ call \in { << [raw_line |-> l] >> : l \in Lines }
    /\ ret = <<>>

\* lines 172-176: split_item_and_tags, then group_tag_values on its tags
Extract ==
    /\ ret = <<>>
    /\ ret' = LET nt == split_item_and_tags(call[1].raw_line)
              IN  << [name |-> nt.name, tags |-> nt.tags,
                      nutrient_density |-> group_tag_values(nt.tags).nd] >>
    /\ UNCHANGED <<today, served, tasks, status, resp, chunks, sem, pc, new_df,
                   menu_data, item_options, call>>

ExtractSpec == ExtractInit /\ [][Extract]_vars

\* the pages the site serves where the queries are studied
QueryResponses ==
    { [outcome |-> "ok", body |-> PageA],
      [outcome |-> "ok", body |-> PageB],
      [outcome |-> "timeout", body |-> <<>>] }

\* every index the store can hold: one per start day and per response of
\* each task
QuerySnapshots ==
    UNION { { merge_rows([t \in 1..Len(TaskList(d, d + AppWindowDays)) |->
                  TaskResult[TaskList(d, d + AppWindowDays)[t].hall,
                             TaskList(d, d + AppWindowDays)[t].date, met[t]]])
              : met \in [1..Len(TaskList(d, d + AppWindowDays)) -> QueryResponses] }
            : d \in StartDays }

\* the values the item dropdown can hold: nothing, or a key it offered for
\* some index (Dash keeps the chosen value when a rebuild changes the options)
SelectableKeys ==
    { <<>> } \cup
    UNION { { <<records[i].item_key>> : i \in 1..Len(records) } : records \in QuerySnapshots }

HallChoices == SUBSET { DINING_HALLS[i] : i \in 1..Len(DINING_HALLS) }
AttrChoices == { {}, { str_upper(<<w_vegan>>) } }

QueryInit ==
    /\ NoBuild
    /\ menu_data \in { <<records>> : records \in QuerySnapshots }
    /\ item_options = << item_dropdown_options(menu_data[1]) >>
    /\ call \in { << [selected_item_key |-> k, hall_filter |-> h, attr_filter |-> a] >> :
                    k \in SelectableKeys, h \in HallChoices, a \in AttrChoices }
    /\ ret = <<>>

\* update_results runs on the inputs and the store; when it raises, the
\* table keeps what it showed
RunQuery ==
    /\ ret = <<>>
    /\ LET out == update_results(call[1].selected_item_key, call[1].hall_filter,
                                 call[1].attr_filter, menu_data[1])
       IN  /\ ~out.raised
           /\ ret' = <<out.data>>
    /\ UNCHANGED <<today, served, tasks, status, resp, chunks, sem, pc, new_df,
                   menu_data, item_options, call>>

QuerySpec == QueryInit /\ [][RunQuery]_vars

---------------------------------------------------------------------------
(* Properties of one build *)

NTasks == Len(tasks)
InFlight == {t \in 1..NTasks : status[t] = "fetching"}
AllTasksReturned == \A t \in 1..NTasks : status[t] = "done"
Met(t) == resp[t][1]
\* the fetch of task t raised (a transport error or the timeout)
FetchRaised(t) == status[t] = "done" /\ Met(t).outcome \in {"conn_error", "timeout"}
\* a row of the index and a row of a chunk are the same entry
SameEntry(indexed, r) == [indexed EXCEPT !.item_display = r.item_display] = r

\* C1: at no time are more than MAX_CONCURRENCY tasks inside the fetch+parse
\* section, and a task is let in only while fewer than that many are inside.
C1_ConcurrencyBound ==
    /\ Cardinality(InFlight) <= MAX_CONCURRENCY
    /\ sem = MAX_CONCURRENCY - Cardinality(InFlight)

\* the cap is reached while a task still waits for a slot
C1_Witness ==
    /\ Cardinality(InFlight) = MAX_CONCURRENCY
    /\ \E t \in 1..NTasks : status[t] = "created"
    /\ \E t \in 1..NTasks : status[t] = "done"

\* the state of C2 when the build has returned: every task has returned, a
\* page whose fetch raised gave no row, every row a task returned is in the index
C2_Returned ==
    /\ AllTasksReturned
    /\ \A t \in 1..NTasks : FetchRaised(t) => chunks[t] = <<>>
    /\ \A t \in 1..NTasks : \A i \in 1..Len(chunks[t]) :
          \E k \in 1..Len(new_df) : SameEntry(new_df[k], chunks[t][i])

C3_EmptyOnEveryFailure ==
    \A t \in 1..NTasks :
        (status[t] = "done" /\ Met(t).outcome # "ok") => fetch_text(Met(t)) = <<>>

\* C5: in the index a build returns, all entries of one item key show one
\* label, the item of the first entry of that key in the index.
C5_CanonicalLabel ==
    pc = "built" =>
        \A i \in 1..Len(new_df) :
            LET same == {j \in 1..Len(new_df) : new_df[j].item_key = new_df[i].item_key}
                first == CHOOSE j \in same : \A k \in same : j <= k
            IN  /\ new_df[i].item_display = new_df[first].item
                /\ \A j \in same : new_df[j].item_display = new_df[i].item_display

\* an index where a later entry's own text differs from the label it shows
C5_Witness ==
    /\ pc = "built"
    /\ \E i \in 1..Len(new_df) : new_df[i].item # new_df[i].item_display

\* the task of a (date, hall) pair
TaskOf(d, h) == CHOOSE t \in 1..NTasks : tasks[t].date = d /\ tasks[t].hall = h

\* the rows of the pages as fetched, day by day and within a day hall by hall
RECURSIVE RowsByDayThenHall(_, _)
RowsByDayThenHall(d, h) ==
    IF d > today + (NTasks \div Len(DINING_HALLS)) - 1 THEN <<>>
    ELSE IF h > Len(DINING_HALLS) THEN RowsByDayThenHall(d + 1, 1)
    ELSE chunks[TaskOf(d, DINING_HALLS[h])] \o RowsByDayThenHall(d, h + 1)

\* C10: whatever the order in which the tasks ran and returned, the index
\* holds the rows in creation order (day, then hall in catalog order, then
\* the parser's order), and so the label of a key is that of its first row
\* in that order.
C10_DispatchOrder ==
    pc = "built" =>
        LET want == RowsByDayThenHall(today, 1)
        IN  /\ Len(new_df) = Len(want)
            /\ \A i \in 1..Len(want) :
                /\ SameEntry(new_df[i], want[i])
                /\ \A j \in 1..i :
                      (want[j].item_key = want[i].item_key
                       /\ \A k \in 1..(j - 1) : want[k].item_key # want[i].item_key)
                      => new_df[i].item_display = want[j].item

\* an index whose first two pages name one item in different casing, so
\* that the order of the chunks decides the label
C10_Witness ==
    /\ pc = "built"
    /\ chunks[1] # <<>> /\ chunks[2] # <<>>
    /\ chunks[1][1].item_key = chunks[2][1].item_key
    /\ chunks[1][1].item # chunks[2][1].item
    /\ new_df[1].item_display = chunks[1][1].item

---------------------------------------------------------------------------
(* Properties of the application *)

\* the index holds exactly the rows the tasks of the running build returned
HoldsEveryChunk(records) ==
    /\ Len(records) =
          Cardinality({<<t, i>> \in (1..NTasks) \X (1..Len(records)) : i <= Len(chunks[t])})
    /\ \A t \in 1..NTasks : \A i \in 1..Len(chunks[t]) :
          \E k \in 1..Len(records) : SameEntry(records[k], chunks[t][i])

\* the dropdown offers exactly the item keys of the index
OffersKeysOf(options, records) ==
    {options[i].value : i \in 1..Len(options)}
        = {records[k].item_key : k \in 1..Len(records)}

\* C6: a rebuild is atomic for the consumer.  A step changes the store or
\* the item options only when the build has returned with every task
\* joined, and then both are set together from that build's complete index;
\* a rebuild given up while it runs leaves both as they were; and a query
\* that runs at any time, during a rebuild too, shows rows of the published
\* index only.
C6_AtomicRebuild ==
    [][ /\ (menu_data' # menu_data \/ item_options' # item_options) =>
              /\ pc = "built"
              /\ AllTasksReturned
              /\ menu_data' # <<>> /\ item_options' # <<>>
              /\ HoldsEveryChunk(menu_data'[1])
              /\ OffersKeysOf(item_options'[1], menu_data'[1])
        /\ (pc = "gather" /\ pc' = "idle") =>
              /\ menu_data' = menu_data
              /\ item_options' = item_options
        /\ (ret' # ret) =>
              /\ menu_data' = menu_data
              /\ \A i \in 1..Len(ret'[1]) : \E k \in 1..Len(menu_data[1]) :
                    /\ ret'[1][i].date = menu_data[1][k].date
                    /\ ret'[1][i].hall = menu_data[1][k].hall
                    /\ ret'[1][i].meal = menu_data[1][k].meal
                    /\ ret'[1][i].item_display = menu_data[1][k].item_display
      ]_vars

\* a rebuild has replaced the index after a query: the table still shows
\* rows of the day before, the store holds the index of the new window
C6_Witness ==
    /\ pc = "idle"
    /\ menu_data # <<>> /\ ret # <<>>
    /\ menu_data[1] # <<>> /\ ret[1] # <<>>
    /\ ret[1][1].date # menu_data[1][1].date

---------------------------------------------------------------------------
(* Properties of the parser *)

\* the rows of the page before the dedup loop: meal list order, then row order
ParsedRows ==
    all_meal_rows(call[1].html,
                  IF date_weekday(call[1].date) < 5 THEN WEEKDAY_MEALS ELSE WEEKEND_MEALS,
                  1, call[1].hall_name, date_strftime(call[1].date))

SameSlotAndKey(a, b) ==
    a.date = b.date /\ a.hall = b.hall /\ a.meal = b.meal /\ a.item_key = b.item_key

\* the rows that no earlier row of the page matches in (date, hall, meal, key)
FirstOfTheirKey(rows) ==
    {i \in 1..Len(rows) : \A j \in 1..(i - 1) : ~SameSlotAndKey(rows[j], rows[i])}

\* C4: the list the parser returns has no two entries of one (date, hall,
\* meal, item key); of the rows of a page that share these four it keeps
\* the first and drops the others; and the entries kept stay in the order
\* of the rows (meal list order, then row order).
C4_DedupFirstWins ==
    ret # <<>> =>
        \A rows \in {ParsedRows} : \A firsts \in {FirstOfTheirKey(rows)} :
            /\ \A i, j \in 1..Len(ret[1]) : SameSlotAndKey(ret[1][i], ret[1][j]) => i = j
            /\ Len(ret[1]) = Cardinality(firsts)
            /\ \A i \in firsts :
                  ret[1][1 + Cardinality({j \in firsts : j < i})] = rows[i]

\* a later row in another spelling was dropped, and the same item stays
\* under two meals
C4_Witness ==
    /\ ret # <<>>
    /\ \E rows \in {ParsedRows} : \E i, j \in 1..Len(rows) :
          /\ i < j
          /\ SameSlotAndKey(rows[i], rows[j])
          /\ rows[i].item # rows[j].item
          /\ \E k \in 1..Len(ret[1]) : ret[1][k] = rows[i]
          /\ \A k \in 1..Len(ret[1]) : ret[1][k] # rows[j]
    /\ \E i, j \in 1..Len(ret[1]) :
          ret[1][i].item_key = ret[1][j].item_key /\ ret[1][i].meal # ret[1][j].meal

---------------------------------------------------------------------------
(* Properties of the tag extractor *)

\* the item line: the text before the first detail marker ("close" is the
\* marker the model's lines hold)
ItemLine ==
    LET l == call[1].raw_line
        cut == {i \in 1..Len(l) : FoldTok(l[i]) = w_close}
    IN  IF cut = {} THEN l
        ELSE SubSeq(l, 1, (CHOOSE i \in cut : \A j \in cut : i <= j) - 1)

\* the words ws stand in the item line one after the other, a blank between
HasPhrase(ws) ==
    \E i \in 1..Len(ItemLine) :
        /\ i + 2 * (Len(ws) - 1) <= Len(ItemLine)
        /\ \A k \in 1..Len(ws) : FoldTok(ItemLine[i + 2 * (k - 1)]) = ws[k]

\* how often the word w stands in the item line
CountWord(w) == Cardinality({i \in 1..Len(ItemLine) : FoldTok(ItemLine[i]) = w})

HasTag(ws) == \E i \in 1..Len(ret[1].tags) : ret[1].tags[i] = str_upper(Words(ws))

MediumHigh == <<w_nutrient, w_dense, w_medium, w_high>>
LowMedium == <<w_nutrient, w_dense, w_low, w_medium>>
LevelMediumHigh == <<str_title(<<w_medium>>)[1], SLASH, str_title(<<w_high>>)[1]>>

\* C9 (as claimed): every item line that holds "Nutrient Dense Medium High"
\* gets the tag NUTRIENT DENSE MEDIUM HIGH and not NUTRIENT DENSE MEDIUM
\* (and one that holds "Nutrient Dense Low Medium" the tag NUTRIENT DENSE
\* LOW MEDIUM and not NUTRIENT DENSE LOW), and the level "Medium/High".
C9_LongestOnly ==
    ret # <<>> =>
        /\ HasPhrase(MediumHigh) =>
              /\ HasTag(MediumHigh)
              /\ ~HasTag(<<w_nutrient, w_dense, w_medium>>)
              /\ ret[1].nutrient_density = LevelMediumHigh
        /\ HasPhrase(LowMedium) =>
              /\ HasTag(LowMedium)
              /\ ~HasTag(<<w_nutrient, w_dense, w_low>>)

\* C9 (amended): every item line that holds "Nutrient Dense Medium High"
\* gets the tag NUTRIENT DENSE MEDIUM HIGH and the level "Medium/High",
\* never "Medium"; it gets NUTRIENT DENSE MEDIUM besides only if the word
\* "nutrient" stands in the line a second time.  Likewise "Nutrient Dense
\* Low Medium" always gives NUTRIENT DENSE LOW MEDIUM, and NUTRIENT DENSE
\* LOW besides only with a second "nutrient".
C9_LongestFirst ==
    ret # <<>> =>
        /\ HasPhrase(MediumHigh) =>
              /\ HasTag(MediumHigh)
              /\ ret[1].nutrient_density = LevelMediumHigh
              /\ CountWord(w_nutrient) = 1 => ~HasTag(<<w_nutrient, w_dense, w_medium>>)
        /\ HasPhrase(LowMedium) =>
              /\ HasTag(LowMedium)
              /\ CountWord(w_nutrient) = 1 => ~HasTag(<<w_nutrient, w_dense, w_low>>)

\* a line with a name and the long phrase was classified
C9_Witness ==
    /\ ret # <<>>
    /\ HasPhrase(MediumHigh)
    /\ ret[1].name = <<T_Soup>>
    /\ ret[1].tags = << str_upper(Words(MediumHigh)) >>
    /\ ret[1].nutrient_density = LevelMediumHigh

---------------------------------------------------------------------------
(* Properties of the query callback *)

\* the place of a meal in the day
MealRank(meal) ==
    IF meal \in {T_Breakfast, T_Brunch} THEN 1 ELSE IF meal = T_Lunch THEN 2 ELSE 3

\* row a may stand before row b in the order of the claim
InClaimedOrder(a, b) ==
    \/ TextLess(a.date, b.date)
    \/ /\ a.date = b.date
       /\ \/ TextLess(a.hall, b.hall)
          \/ /\ a.hall = b.hall
             /\ \/ MealRank(a.meal) < MealRank(b.meal)
                \/ /\ MealRank(a.meal) = MealRank(b.meal)
                   /\ ~TextLess(str_casefold(b.item_display), str_casefold(a.item_display))

\* C7 (as claimed): the rows of a result stand by date, then hall, then
\* meal in the order of the day, then label without regard to case.
C7_ResultOrder ==
    ret # <<>> =>
        \A i, j \in 1..Len(ret[1]) : i < j => InClaimedOrder(ret[1][i], ret[1][j])

\* s holds sub as a run of characters
HasSubstring(s, sub) ==
    \E off \in 0..(Len(s) - Len(sub)) : \A i \in 1..Len(sub) : s[off + i] = sub[i]

\* C8 (as claimed): with an item key selected, every row returned is of a
\* selected hall (if halls are selected) and has a key that equals the
\* selected key or holds it as a substring.
C8_ExactElseSubstring ==
    (ret # <<>> /\ call[1].selected_item_key # <<>>) =>
        \A i \in 1..Len(ret[1]) :
            /\ call[1].hall_filter # {} => ret[1][i].hall \in call[1].hall_filter
            /\ HasSubstring(Flatten(str_casefold(ret[1][i].item_display)),
                            Flatten(call[1].selected_item_key[1]))

=============================================================================
